---- MODULE Spec2Model ----
(***************************************************************************)
(* A model of extern-contribs-agg (src/main.go): the roster parser, the    *)
(* commit collector, the checkpoint store, the bounded enrichment fan-out  *)
(* and the report formatter.                                               *)
(*                                                                         *)
(* Strings are sequences of one-character strings, so that Split,          *)
(* HasPrefix, Contains and the byte-wise comparison of logins are computed *)
(* rather than assumed.  A time.Time is a record [unix, nsec, off]: the    *)
(* instant in whole seconds since the epoch, the nanoseconds within the    *)
(* second, and the zone offset in seconds east of UTC.  An RFC-3339        *)
(* string is the record of the fields time.Format prints.                  *)
(***************************************************************************)
EXTENDS Integers, Sequences, FiniteSets, Bags, TLC

VARIABLES
    mainPc,             \* position of the main goroutine
    proc,               \* "running", "exited" (main returned) or "crashed" (a panic)
    contents,           \* the AUTHORS file served by the API
    emails, names,      \* main: emails, names (lines 351) and the parser's results
    organizationMembers,\* main: logins of the organization (line 346)
    commits,            \* the commits the API lists, over all repos and pages
    idx,                \* number of commits the collector has handled
    userTimes,          \* main: login -> list of time.Time (line 355)
    file,               \* the checkpoint document on disk, or NoFile
    usersIn,            \* intermediateOutputToOutput: the loaded checkpoint
    pending,            \* entries of usersIn the range loop has not reached
    tasks,              \* the lookup goroutines
    rateLimit,          \* number of tokens in the rateLimit channel
    resultCh,           \* the buffered result channel
    wg,                 \* the WaitGroup counter
    i,                  \* the collation loop's index
    users,              \* login -> user, built by the collation loop
    blocklistedNames,   \* line 264
    now,                \* what time.Now() returns
    from, to,           \* a range given to formatContributors
    order,              \* an iteration order of a Go map
    block,              \* a result of formatContributors
    out,                \* the report: the all-time block and the yearly blocks
    outFile,            \* the report file on disk, or NoFile
    pool                \* the enrichment with its logins left out

vars == <<mainPc, proc, contents, emails, names, organizationMembers, commits,
          idx, userTimes, file, usersIn, pending, tasks, rateLimit, resultCh,
          wg, i, users, blocklistedNames, now, from, to, order, block, out,
          outFile, pool>>

\* A file on disk: absent, or holding data.
NoFile == [exists |-> FALSE, data |-> <<>>]

FileOf(data) == [exists |-> TRUE, data |-> data]

-----------------------------------------------------------------------------
(* Package strings.                                                        *)

\* The characters the model's strings use, in byte order.
Alphabet ==
    <<"\n", " ", "#", ",", "-", ".", "/", "1", "2", "<", ">", "@", "A",
      "D", "E", "F", "H", "J", "M", "O", "[", "]", "a", "b", "c", "d", "e",
      "g", "h", "i", "j", "k", "l", "m", "n", "o", "p", "q", "r", "s", "t",
      "u", "v", "x", "z">>

Ord(c) == CHOOSE k \in 1..Len(Alphabet) : Alphabet[k] = c

\* Go's s < t on strings: byte-wise lexicographic order.
RECURSIVE StrLess(_, _)
StrLess(s, t) ==
    IF t = <<>> THEN FALSE
    ELSE IF s = <<>> THEN TRUE
    ELSE IF Head(s) # Head(t) THEN Ord(Head(s)) < Ord(Head(t))
    ELSE StrLess(Tail(s), Tail(t))

HasPrefix(s, prefix) ==
    Len(s) >= Len(prefix) /\ SubSeq(s, 1, Len(prefix)) = prefix

HasSuffix(s, suffix) ==
    Len(s) >= Len(suffix) /\ SubSeq(s, Len(s) - Len(suffix) + 1, Len(s)) = suffix

Contains(s, substr) ==
    \E k \in 0..(Len(s) - Len(substr)) : SubSeq(s, k + 1, k + Len(substr)) = substr

\* strings.Split(s, sep) for a separator sep of one character.
RECURSIVE Split(_, _)
Split(s, sep) ==
    IF \A k \in 1..Len(s) : s[k] # sep[1] THEN <<s>>
    ELSE LET k == CHOOSE k \in 1..Len(s) :
                      s[k] = sep[1] /\ \A j \in 1..(k - 1) : s[j] # sep[1]
         IN  <<SubSeq(s, 1, k - 1)>> \o Split(SubSeq(s, k + 1, Len(s)), sep)

\* strings.Join(elems, sep).
RECURSIVE Join(_, _)
Join(elems, sep) ==
    IF elems = <<>> THEN <<>>
    ELSE IF Len(elems) = 1 THEN elems[1]
    ELSE elems[1] \o sep \o Join(Tail(elems), sep)

-----------------------------------------------------------------------------
(* The strings of the model's inputs.                                      *)

\* Logins.

alice == <<"a", "l", "i", "c", "e">>

bob == <<"b", "o", "b">>

carol == <<"c", "a", "r", "o", "l">>

external1 == <<"e", "x", "t", "e", "r", "n", "a", "l", "1">>

jane == <<"j", "a", "n", "e">>

jdoe == <<"j", "d", "o", "e">>

nigeltao == <<"n", "i", "g", "e", "l", "t", "a", "o">>

ghost == <<"g", "h", "o", "s", "t">>

stale == <<"s", "t", "a", "l", "e">>

\* Display names.

JaneDoe == <<"J", "a", "n", "e", " ", "D", "o", "e">>

ExternalOne ==
    <<"E", "x", "t", "e", "r", "n", "a", "l", " ", "O", "n", "e">>

AliceA == <<"A", "l", "i", "c", "e", " ", "A">>

\* Email addresses.

janeEmail ==
    <<"j", "a", "n", "e", "@", "c", "o", "c", "k", "r", "o", "a", "c", "h",
      "l", "a", "b", "s", ".", "c", "o", "m">>

jdEmail == <<"j", "d", "@", "g", "m", "a", "i", "l", ".", "c", "o", "m">>

external1Email ==
    <<"e", "x", "t", "e", "r", "n", "a", "l", "1", "@", "g", "m", "a", "i",
      "l", ".", "c", "o", "m">>

carolEmail ==
    <<"c", "a", "r", "o", "l", "@", "c", "o", "c", "k", "r", "o", "a", "c",
      "h", "l", "a", "b", "s", ".", "c", "o", "m">>

aliceEmail ==
    <<"a", "l", "i", "c", "e", "@", "g", "m", "a", "i", "l", ".", "c", "o",
      "m">>

\* Commit messages.

FixBug == <<"F", "i", "x", " ", "b", "u", "g">>

MergePR ==
    <<"M", "e", "r", "g", "e", " ", "p", "u", "l", "l", " ", "r", "e", "q",
      "u", "e", "s", "t", " ", "#", "1", "2">>

MergePrefix ==
    <<"M", "e", "r", "g", "e", " ", "p", "u", "l", "l", " ", "r", "e", "q",
      "u", "e", "s", "t", " ">>

\* Lines of an AUTHORS file.

LineJane ==
    <<"J", "a", "n", "e", " ", "D", "o", "e", " ", "<", "j", "a", "n", "e",
      "@", "c", "o", "c", "k", "r", "o", "a", "c", "h", "l", "a", "b", "s",
      ".", "c", "o", "m", ">">>

LineJaneTwo ==
    <<"J", "a", "n", "e", " ", "D", "o", "e", " ", "<", "j", "a", "n", "e",
      "@", "c", "o", "c", "k", "r", "o", "a", "c", "h", "l", "a", "b", "s",
      ".", "c", "o", "m", ">", " ", "<", "j", "d", "@", "g", "m", "a", "i",
      "l", ".", "c", "o", "m", ">">>

LineBobTwo ==
    <<"b", "o", "b", " ", "<", "b", "o", "b", "@", "g", "m", "a", "i", "l",
      ".", "c", "o", "m", ">", " ", "<", "b", "o", "b", "@", "c", "o", "c",
      "k", "r", "o", "a", "c", "h", "l", "a", "b", "s", ".", "c", "o", "m",
      ">">>

LineComment ==
    <<"#", " ", "O", "l", "d", " ", "H", "a", "n", "d", " ", "<", "o", "l",
      "d", "@", "c", "o", "c", "k", "r", "o", "a", "c", "h", "l", "a", "b",
      "s", ".", "c", "o", "m", ">">>

LineCommentJane ==
    <<"#", "J", "a", "n", "e", " ", "D", "o", "e", " ", "<", "j", "a", "n",
      "e", "@", "c", "o", "c", "k", "r", "o", "a", "c", "h", "l", "a", "b",
      "s", ".", "c", "o", "m", ">">>

LineExternal ==
    <<"E", "x", "t", " ", "O", "n", "e", " ", "<", "e", "x", "t", "@", "g",
      "m", "a", "i", "l", ".", "c", "o", "m", ">">>

LineNoName ==
    <<"<", "x", "@", "c", "o", "c", "k", "r", "o", "a", "c", "h", "l", "a",
      "b", "s", ".", "c", "o", "m", ">">>

LineOpen ==
    <<"A", "l", " ", "<", "a", "l", "@", "c", "o", "c", "k", "r", "o", "a",
      "c", "h", "l", "a", "b", "s", ".", "c", "o", "m">>

LineEmpty == <<>>

\* The default of the -blocklist flag, lines 59-63.

flagBlocklist ==
    <<"p", "e", "t", "e", "r", "m", "a", "t", "t", "i", "s", "-", "s", "q",
      "u", "a", "r", "e", ",", "c", "r", "a", "i", "g", "[", "b", "o", "t",
      "]", ",", "n", "i", "g", "e", "l", "t", "a", "o", ",", "d", "e", "p",
      "e", "n", "d", "a", "b", "o", "t", ",", "d", "e", "p", "e", "n", "d",
      "a", "b", "o", "t", "[", "b", "o", "t", "]", ",", "a", "l", "i", "m",
      "i", ",", "t", "i", "m", "g", "r", "a", "h", "a", "m", ",", "p", "a",
      "p", "b", ",", "c", "h", "r", "i", "s", "l", "o", "v", "e", "c", "n",
      "m", ",", "m", "a", "r", "l", "a", "b", "r", "i", "z", "e", "l", ",",
      "r", "k", "r", "u", "z", "e">>

-----------------------------------------------------------------------------
(* getOrganizationEmailsAndNamesFromAuthors, lines 136-157.                *)

InternalDomain ==
    <<"@", "c", "o", "c", "k", "r", "o", "a", "c", "h", "l", "a", "b", "s",
      ".", "c", "o", "m">>

\* Line 147: the field is an angle-bracketed token.
IsEmailToken(field) == HasPrefix(field, <<"<">>) /\ HasSuffix(field, <<">">>)

\* Lines 145-155: the loop over the fields of one line, from field k on.
\* acc is [emails, logins]; seenEmail is the loop's flag.
RECURSIVE ScanFields(_, _, _, _)
ScanFields(fields, k, seenEmail, acc) ==
    IF k > Len(fields) THEN acc
    ELSE IF IsEmailToken(fields[k])
    THEN ScanFields(fields, k + 1, TRUE,
            [emails |-> acc.emails \cup {SubSeq(fields[k], 2, Len(fields[k]) - 1)},
             logins |-> IF seenEmail THEN acc.logins
                        ELSE acc.logins \cup {Join(SubSeq(fields, 1, k - 1), <<" ">>)}])
    ELSE ScanFields(fields, k + 1, seenEmail, acc)

\* A mutant of SkipLine: comment lines are not skipped.
SkipLineNoComment(line) == ~Contains(line, InternalDomain)

\* Lines 138-143: the lines the parser skips.
SkipLine(line) == HasPrefix(line, <<"#">>) \/ ~Contains(line, InternalDomain)

\* Lines 137-156: the loop over the lines, from line k on.
RECURSIVE ScanLines(_, _, _)
ScanLines(lines, k, acc) ==
    IF k > Len(lines) THEN acc
    ELSE IF SkipLine(lines[k]) THEN ScanLines(lines, k + 1, acc)
    ELSE ScanLines(lines, k + 1,
                   ScanFields(Split(lines[k], <<" ">>), 1, FALSE, acc))

\* The function's two results for the document doc: [emails, logins].
getOrganizationEmailsAndNamesFromAuthors(doc) ==
    ScanLines(Split(doc, <<"\n">>), 1, [emails |-> {}, logins |-> {}])

-----------------------------------------------------------------------------
(* Package time.                                                           *)

\* Days from 1970-01-01 to the civil date y-m-d (proleptic Gregorian).
DaysFromCivil(y, m, d) ==
    LET yy  == IF m <= 2 THEN y - 1 ELSE y
        era == yy \div 400
        yoe == yy - era * 400
        mp  == IF m > 2 THEN m - 3 ELSE m + 9
        doy == (153 * mp + 2) \div 5 + d - 1
        doe == yoe * 365 + yoe \div 4 - yoe \div 100 + doy
    IN  era * 146097 + doe - 719468

\* The civil date of the day z days after 1970-01-01.
CivilFromDays(z) ==
    LET zz  == z + 719468
        era == zz \div 146097
        doe == zz - era * 146097
        yoe == (doe - doe \div 1460 + doe \div 36524 - doe \div 146096) \div 365
        doy == doe - (365 * yoe + yoe \div 4 - yoe \div 100)
        mp  == (5 * doy + 2) \div 153
        d   == doy - (153 * mp + 2) \div 5 + 1
        m   == IF mp < 10 THEN mp + 3 ELSE mp - 9
        y   == yoe + era * 400
    IN  [year |-> IF m <= 2 THEN y + 1 ELSE y, month |-> m, day |-> d]

IsLeap(y) == y % 4 = 0 /\ (y % 100 # 0 \/ y % 400 = 0)

DaysIn(m, y) ==
    IF m = 2 THEN (IF IsLeap(y) THEN 29 ELSE 28)
    ELSE IF m \in {4, 6, 9, 11} THEN 30 ELSE 31

\* time.Date(year, month, day, 0, 0, 0, 0, time.UTC), lines 300, 312, 313.
DateUTC(y, m, d) == [unix |-> DaysFromCivil(y, m, d) * 86400, nsec |-> 0, off |-> 0]

\* t.Year(): the year of t in t's own zone (line 302).
Year(t) == CivilFromDays((t.unix + t.off) \div 86400).year

\* A mutant of After: the bound itself is let in.
AfterOrEqual(t, u) == t.unix > u.unix \/ (t.unix = u.unix /\ t.nsec >= u.nsec)

\* t.After(u) and t.Before(u), line 171: a comparison of instants.
After(t, u) == t.unix > u.unix \/ (t.unix = u.unix /\ t.nsec > u.nsec)

Before(t, u) == t.unix < u.unix \/ (t.unix = u.unix /\ t.nsec < u.nsec)

\* A mutant of FormatRFC3339: the fields are those of UTC, the zone is t's.
FormatRFC3339AsUTC(t) ==
    LET civil == CivilFromDays(t.unix \div 86400)
        rem   == t.unix % 86400
    IN  [year |-> civil.year, month |-> civil.month, day |-> civil.day,
         hour |-> rem \div 3600, minute |-> (rem % 3600) \div 60,
         second |-> rem % 60,
         zone |-> IF t.off >= 0 THEN t.off \div 60 ELSE -((-t.off) \div 60)]

\* t.Format(time.RFC3339), line 423: the wall clock of t in its zone, to the
\* second, and the zone's offset in minutes.  The nanoseconds are not printed.
FormatRFC3339(t) ==
    LET local == t.unix + t.off
        civil == CivilFromDays(local \div 86400)
        rem   == local % 86400
    IN  [year |-> civil.year, month |-> civil.month, day |-> civil.day,
         hour |-> rem \div 3600, minute |-> (rem % 3600) \div 60,
         second |-> rem % 60,
         zone |-> IF t.off >= 0 THEN t.off \div 60 ELSE -((-t.off) \div 60)]

\* time.Parse(time.RFC3339, s), line 245: [ok, t]; ok is FALSE when a field
\* is out of range.
ParseRFC3339(s) ==
    LET ok == /\ s.month \in 1..12
              /\ s.day \in 1..DaysIn(s.month, s.year)
              /\ s.hour \in 0..23 /\ s.minute \in 0..59 /\ s.second \in 0..59
    IN  [ok |-> ok,
         t  |-> IF ok
                THEN [unix |-> DaysFromCivil(s.year, s.month, s.day) * 86400
                               + s.hour * 3600 + s.minute * 60 + s.second
                               - s.zone * 60,
                      nsec |-> 0, off |-> s.zone * 60]
                ELSE [unix |-> 0, nsec |-> 0, off |-> 0]]

\* Lines 243-250: the parse loop of one lookup task; ok is FALSE when it panics.
RECURSIVE ParseTimes(_)
ParseTimes(timesIn) ==
    IF timesIn = <<>> THEN [ok |-> TRUE, times |-> <<>>]
    ELSE LET p    == ParseRFC3339(Head(timesIn))
             rest == ParseTimes(Tail(timesIn))
         IN  [ok |-> p.ok /\ rest.ok,
              times |-> IF p.ok /\ rest.ok THEN <<p.t>> \o rest.times ELSE <<>>]

-----------------------------------------------------------------------------
(* Helpers for Go maps, modelled as functions.                             *)

EmptyMap == [k \in {} |-> 0]

MapPut(m, k, v) == [x \in DOMAIN m \cup {k} |-> IF x = k THEN v ELSE m[x]]

Range(s) == {s[k] : k \in DOMAIN s}

\* The sequences over S of length at most n.
SeqsUpTo(S, n) == UNION {[1..k -> S] : k \in 0..n}

\* The orders in which a Go map with key set S can be ranged over.
Perms(S) == {p \in [1..Cardinality(S) -> S] : Range(p) = S}

-----------------------------------------------------------------------------
(* Values the variables of a component hold while it is not in use.        *)

RosterIdle == contents = <<>> /\ emails = {} /\ names = {}

CollectIdle ==
    /\ organizationMembers = {} /\ commits = <<>> /\ idx = 0
    /\ userTimes = EmptyMap /\ file = NoFile

EnrichIdle ==
    /\ usersIn = EmptyBag /\ pending = EmptyBag /\ tasks = EmptyBag
    /\ rateLimit = 0 /\ resultCh = <<>> /\ wg = 0 /\ i = 0
    /\ users = EmptyMap /\ blocklistedNames = {}
    /\ out = <<>> /\ outFile = NoFile

FormatIdle ==
    /\ from = DateUTC(1970, 1, 1) /\ to = DateUTC(1970, 1, 1)
    /\ order = <<>> /\ block = <<>>

\* The value of pool while the enrichment is modelled login by login.
PoolIdle ==
    [mainPc |-> "idle", proc |-> "running", lenUsersIn |-> 0,
     pending |-> EmptyBag, tasks |-> EmptyBag, rateLimit |-> 0,
     resultCh |-> 0, wg |-> 0, i |-> 0, written |-> FALSE]

rosterVars == <<contents, emails, names>>
collectVars == <<organizationMembers, commits, idx, userTimes, file>>
enrichVars == <<usersIn, pending, tasks, rateLimit, resultCh, wg, i, users,
                blocklistedNames, out, outFile>>
formatVars == <<from, to, order, block>>

-----------------------------------------------------------------------------
(* The roster parser on its own: every document of at most MaxLines lines. *)

MaxLines == 2

RosterLines ==
    {LineJane, LineJaneTwo, LineBobTwo, LineComment, LineCommentJane,
     LineExternal, LineNoName, LineOpen, LineEmpty}

RosterDocs == {Join(ls, <<"\n">>) : ls \in SeqsUpTo(RosterLines, MaxLines)}

InitRoster ==
    /\ mainPc = "authors" /\ proc = "running"
    /\ contents \in RosterDocs /\ emails = {} /\ names = {}
    /\ CollectIdle /\ EnrichIdle /\ FormatIdle
    /\ now = DateUTC(1970, 1, 1)
    /\ pool = PoolIdle

\* emails, names := getOrganizationEmailsAndNamesFromAuthors(ctx, ghClient)
ParseAuthors ==
    /\ mainPc = "authors" /\ proc = "running"
    /\ LET ret == getOrganizationEmailsAndNamesFromAuthors(contents)
       IN  emails' = ret.emails /\ names' = ret.logins
    /\ mainPc' = "commits"
    /\ UNCHANGED <<proc, contents, collectVars, enrichVars, formatVars, now, pool>>

NextRoster == ParseAuthors

SpecRoster == InitRoster /\ [][NextRoster]_vars

\* The lines of the document the parser reads and the lines it skips.
QualifyingLines ==
    {l \in Range(Split(contents, <<"\n">>)) :
        ~HasPrefix(l, <<"#">>) /\ Contains(l, InternalDomain)}

SkippedLines == Range(Split(contents, <<"\n">>)) \ QualifyingLines

\* The angle-bracketed tokens of a line, without their brackets.
TokensOf(l) ==
    {SubSeq(f, 2, Len(f) - 1) : f \in {g \in Range(Split(l, <<" ">>)) : IsEmailToken(g)}}

\* C5 as stated: every email of the result contains "@cockroachlabs.com",
\* and no email of a skipped line is in the result.
C5_EveryEmailInternal ==
    mainPc = "commits" =>
        /\ \A e \in emails : Contains(e, InternalDomain)
        /\ \A l \in SkippedLines : TokensOf(l) \cap emails = {}

\* C5 amended: every email of the result is an angle-bracketed token of a
\* line that does not start with "#" and contains "@cockroachlabs.com" (the
\* email itself need not contain it), every such token is in the result, and
\* an email whose only lines are skipped ones is not in the result.
C5_EmailsOfQualifyingLines ==
    mainPc = "commits" =>
        emails = UNION {TokensOf(l) : l \in QualifyingLines}

\* A qualifying line with several tokens has been parsed, next to a comment
\* line naming an internal address.
C5_Witness ==
    /\ mainPc = "commits"
    /\ jdEmail \in emails /\ janeEmail \in emails
    /\ LineComment \in SkippedLines

-----------------------------------------------------------------------------
(* formatContributors, lines 167-201.                                      *)

\* Line 171: the test a timestamp passes to be counted.
InRange(t, lo, hi) == After(t, lo) /\ Before(t, hi)

\* Lines 168-175: timesByUser, the users with at least one timestamp in
\* range and the number of those timestamps.
TimesByUser(us, lo, hi) ==
    LET count(u) == Cardinality({k \in DOMAIN us[u].times :
                                    InRange(us[u].times[k], lo, hi)})
    IN  [u \in {v \in DOMAIN us : count(v) > 0} |-> count(u)]

\* Lines 180-183: toSort, filled in the order ord in which the range
\* statement visits the keys of timesByUser.
ToSort(us, tbu, ord) == [k \in 1..Len(ord) |-> [u |-> us[ord[k]], count |-> tbu[ord[k]]]]

\* A mutant of EntryLess: equal counts are not told apart by login.
EntryLessCountOnly(a, b) == a.count > b.count

\* Lines 184-189: the less function given to sort.Slice.
EntryLess(a, b) ==
    IF a.count = b.count THEN StrLess(a.u.login, b.u.login)
    ELSE a.count > b.count

\* sort.Slice(toSort, less): the sort is not stable, so every arrangement of
\* the slice that less leaves no pair of out of order is a possible result.
SortSlice(s) ==
    {p \in {[k \in 1..Len(s) |-> s[q[k]]] : q \in Perms(1..Len(s))} :
        \A a, b \in 1..Len(s) : a < b => ~EntryLess(p[b], p[a])}

RECURSIVE SumCounts(_)
SumCounts(s) == IF s = <<>> THEN 0 ELSE Head(s).count + SumCounts(Tail(s))

\* Lines 191-200: the block's text, as the summary line's two numbers and the
\* list of entries; an entry prints name, userURL and count (login is kept
\* beside them to name the entry's user).
Render(sorted) ==
    [contributors |-> Len(sorted),
     commits      |-> SumCounts(sorted),
     entries      |-> [k \in 1..Len(sorted) |->
                          [name |-> sorted[k].u.name, userURL |-> sorted[k].u.userURL,
                           count |-> sorted[k].count, login |-> sorted[k].u.login]]]

\* The blocks formatContributors(users, from, to) can return, over the
\* iteration orders of the map and the outcomes of the sort.
formatContributors(us, lo, hi) ==
    LET tbu == TimesByUser(us, lo, hi)
    IN  UNION {{Render(p) : p \in SortSlice(ToSort(us, tbu, ord))} :
                  ord \in Perms(DOMAIN tbu)}

\* The first year of the report (lines 300 and 302).
StartYear == 2014

\* Lines 286-316: the reports the main flow can build from users at time
\* now: the all-time block and one block per year from now's year to 2014.
Reports(us, n) ==
    LET years == StartYear..Year(n)
        byYear == [y \in years |->
                      formatContributors(us, DateUTC(y, 1, 1), DateUTC(y + 1, 1, 1))]
    IN  {[allTime |-> a, years |-> ys] :
            a \in formatContributors(us, DateUTC(StartYear, 1, 1), n),
            ys \in {f \in [years -> UNION Range(byYear)] :
                       \A y \in years : f[y] \in byYear[y]}}

-----------------------------------------------------------------------------
(* The formatter on its own: user maps of three logins with at most        *)
(* MaxTimes timestamps each, around the boundaries of the year 2014.       *)

MaxTimes == 2

\* 2014-01-01T00:00:00Z, one nanosecond later, a day in June, the last
\* second of 2014 written in the zone +01:00, and 2015-01-01T00:00:00Z.
SampleTimes ==
    {DateUTC(2014, 1, 1),
     [unix |-> DateUTC(2014, 1, 1).unix, nsec |-> 1, off |-> 0],
     DateUTC(2014, 6, 1),
     [unix |-> DateUTC(2015, 1, 1).unix - 1, nsec |-> 0, off |-> 3600],
     DateUTC(2015, 1, 1)}

SampleNow == [unix |-> DateUTC(2015, 3, 1).unix + 43200, nsec |-> 0, off |-> 0]

SampleRanges ==
    {<<DateUTC(2014, 1, 1), DateUTC(2015, 1, 1)>>,
     <<DateUTC(2014, 1, 1), SampleNow>>}

ProfileURL(u) == <<"/">> \o u

\* alice's timestamps are drawn from the boundary instants, bob's from the
\* instants inside the year; carol has one commit in June.
FormatInputs ==
    {[u \in {alice, bob, carol} |->
        [userURL |-> ProfileURL(u), login |-> u,
         name |-> IF u = alice THEN AliceA ELSE u,
         times |-> IF u = alice THEN ta ELSE IF u = bob THEN tb
                   ELSE <<DateUTC(2014, 6, 1)>>]] :
     ta \in SeqsUpTo(SampleTimes \ {DateUTC(2014, 6, 1)}, MaxTimes),
     tb \in SeqsUpTo({DateUTC(2014, 6, 1),
                      [unix |-> DateUTC(2014, 1, 1).unix, nsec |-> 1, off |-> 0]},
                     MaxTimes)}

InitFormat ==
    /\ mainPc = "range" /\ proc = "running"
    /\ users \in FormatInputs
    /\ \E r \in SampleRanges : from = r[1] /\ to = r[2]
    /\ now = SampleNow
    /\ pool = PoolIdle
    /\ order = <<>> /\ block = <<>> /\ out = <<>>
    /\ RosterIdle /\ CollectIdle
    /\ usersIn = EmptyBag /\ pending = EmptyBag /\ tasks = EmptyBag
    /\ rateLimit = 0 /\ resultCh = <<>> /\ wg = 0 /\ i = 0
    /\ blocklistedNames = {} /\ outFile = NoFile

\* formatContributors(users, from, to); order records the iteration order.
FormatRange ==
    /\ mainPc = "range" /\ proc = "running"
    /\ LET tbu == TimesByUser(users, from, to)
       IN  \E ord \in Perms(DOMAIN tbu) :
               /\ order' = ord
               /\ block' \in {Render(p) : p \in SortSlice(ToSort(users, tbu, ord))}
    /\ mainPc' = "format"
    /\ UNCHANGED <<proc, rosterVars, collectVars, usersIn, pending, tasks,
                   rateLimit, resultCh, wg, i, users, blocklistedNames, now, pool,
                   from, to, out, outFile>>

\* Lines 278-317: the all-time block and the yearly blocks of users at time
\* now (the three calls of time.Now() are taken to return the same instant).
FormatReport ==
    /\ mainPc = "format" /\ proc = "running"
    /\ out' \in Reports(users, now)
    /\ mainPc' = "write"
    /\ UNCHANGED <<proc, rosterVars, collectVars, usersIn, pending, tasks,
                   rateLimit, resultCh, wg, i, users, blocklistedNames, now, pool,
                   formatVars, outFile>>

NextFormat == FormatRange \/ FormatReport

SpecFormat == InitFormat /\ [][NextFormat]_vars

Formatted == mainPc \in {"format", "write"}

\* The number of timestamps of user u strictly between lo and hi, compared
\* as instants (seconds, then nanoseconds).
StrictlyBetween(t, lo, hi) ==
    /\ lo.unix < t.unix \/ (lo.unix = t.unix /\ lo.nsec < t.nsec)
    /\ t.unix < hi.unix \/ (t.unix = hi.unix /\ t.nsec < hi.nsec)

CountBetween(u, lo, hi) ==
    Cardinality({k \in DOMAIN users[u].times : StrictlyBetween(users[u].times[k], lo, hi)})

\* The count a block lists for login u, 0 when it does not list u.
RECURSIVE ListedCount(_, _)
ListedCount(entries, u) ==
    IF entries = <<>> THEN 0
    ELSE (IF Head(entries).login = u THEN Head(entries).count ELSE 0)
         + ListedCount(Tail(entries), u)

RECURSIVE SumSeq(_)
SumSeq(s) == IF s = <<>> THEN 0 ELSE Head(s) + SumSeq(Tail(s))

\* C7: a block lists its users by count descending and, for equal counts, by
\* login ascending; the block is the same for every iteration order of the
\* map; the users without a timestamp in range are not listed; the summary
\* line's numbers are the number of listed users and the sum of their counts.
C7_RankingTotalOrder ==
    Formatted =>
        /\ \A k \in 1..(Len(block.entries) - 1) :
              \/ block.entries[k].count > block.entries[k + 1].count
              \/ /\ block.entries[k].count = block.entries[k + 1].count
                 /\ StrLess(block.entries[k].login, block.entries[k + 1].login)
        /\ formatContributors(users, from, to) = {block}
        /\ {block.entries[k].login : k \in DOMAIN block.entries}
              = {u \in DOMAIN users : CountBetween(u, from, to) > 0}
        /\ \A k \in DOMAIN block.entries : block.entries[k].count > 0
        /\ block.contributors = Len(block.entries)
        /\ block.commits = SumSeq([k \in DOMAIN block.entries |-> block.entries[k].count])

\* Two users with equal counts were visited in descending order of login,
\* and a third user has a timestamp, but none in range.
C7_Witness ==
    /\ Formatted
    /\ Len(block.entries) = 2
    /\ block.entries[1].login = bob /\ block.entries[2].login = carol
    /\ block.entries[1].count = 1 /\ block.entries[2].count = 1
    /\ order = <<carol, bob>>
    /\ users[alice].times = <<DateUTC(2014, 1, 1)>>

\* The timestamps that are exactly the first instant of a year.
IsYearStart(t) ==
    \E y \in StartYear..(Year(now) + 1) : t.unix = DateUTC(y, 1, 1).unix /\ t.nsec = 0

\* C8: a timestamp equal to from or to is not counted and every timestamp
\* strictly between them is counted once for its user; over the yearly
\* blocks a timestamp is counted in at most one year: in the year it lies
\* strictly inside, and in none when it is the first instant of a year.
C8_OpenRange ==
    /\ Formatted =>
          \A u \in DOMAIN users :
              ListedCount(block.entries, u) = CountBetween(u, from, to)
    /\ mainPc = "write" =>
          \A u \in DOMAIN users :
              /\ SumSeq([k \in 1..(Year(now) - StartYear + 1) |->
                            ListedCount(out.years[StartYear + k - 1].entries, u)])
                    = Cardinality({k \in DOMAIN users[u].times :
                          /\ ~IsYearStart(users[u].times[k])
                          /\ StrictlyBetween(users[u].times[k], DateUTC(StartYear, 1, 1),
                                             DateUTC(Year(now) + 1, 1, 1))})
              /\ \A k \in DOMAIN users[u].times :
                    Cardinality({y \in StartYear..Year(now) :
                        InRange(users[u].times[k], DateUTC(y, 1, 1), DateUTC(y + 1, 1, 1))}) <= 1

\* A user has a timestamp equal to from, one equal to to and one a
\* nanosecond after from, and the report has been built.
C8_Witness ==
    /\ mainPc = "write"
    /\ from = DateUTC(2014, 1, 1) /\ to = DateUTC(2015, 1, 1)
    /\ users[alice].times = <<DateUTC(2014, 1, 1), DateUTC(2015, 1, 1)>>
    /\ users[bob].times = <<[unix |-> DateUTC(2014, 1, 1).unix, nsec |-> 1, off |-> 0]>>
    /\ ListedCount(block.entries, alice) = 0
    /\ ListedCount(block.entries, bob) = 1

-----------------------------------------------------------------------------
(* The checkpoint document and the collaborator API.                       *)

\* The keys of a map in ascending byte order, as json.Marshal writes them.
SortedKeys(S) ==
    CHOOSE p \in Perms(S) : \A k \in 1..(Len(p) - 1) : StrLess(p[k], p[k + 1])

\* json.Marshal(commitTimes), line 426: the members of the JSON object.
Marshal(m) == [k \in 1..Cardinality(DOMAIN m) |->
                  [key |-> SortedKeys(DOMAIN m)[k], value |-> m[SortedKeys(DOMAIN m)[k]]]]

\* json.Unmarshal(read, &usersIn), line 214: the map of the object's members.
Unmarshal(doc) ==
    [u \in {doc[k].key : k \in DOMAIN doc} |->
        doc[CHOOSE k \in DOMAIN doc :
                doc[k].key = u /\ \A j \in DOMAIN doc : doc[j].key = u => j <= k].value]

\* ghClient.Users.Get(ctx, u), line 239: the profile the API serves for a
\* login; err is TRUE for the login with no account.
UsersGet(u) ==
    [err     |-> u = ghost,
     name    |-> IF u = alice THEN AliceA
                 ELSE IF u = jdoe THEN JaneDoe
                 ELSE IF u = external1 THEN ExternalOne
                 ELSE <<>>,
     htmlURL |-> ProfileURL(u)]

\* The AUTHORS file the API serves during a run: its names are "Jane Doe"
\* and "bob".
SampleAuthors == Join(<<LineJaneTwo, LineBobTwo, LineComment>>, <<"\n">>)

-----------------------------------------------------------------------------
(* intermediateOutputToOutput, lines 203-330, and its lookup tasks.        *)

\* const userRateLimit = 20, line 220.
userRateLimit == 20

\* Lines 221-224: the number of tokens the pool starts with.
InitialTokens == userRateLimit

\* Lines 225-228: the set built from the -blocklist flag.
blocklisted == Range(Split(flagBlocklist, <<",">>))

\* len(usersIn), line 219: the capacity of resultCh.
LenUsersIn == BagCardinality(usersIn)

\* A mutant of CollateBound: the loop reads the messages the channel holds.
CollateBoundAvailable == i + Len(resultCh)

\* len(usersIn), line 267: the number of results the collation loop receives.
CollateBound == BagCardinality(usersIn)

\* A mutant of Blocked: the display name is not looked at.
BlockedByLoginOnly(u) == u.login \in blocklisted

\* Lines 269-274: the users the collation loop drops.
Blocked(u) == u.login \in blocklisted \/ u.name \in blocklistedNames

\* Line 237: the receive from rateLimit can proceed.
CanAcquire == rateLimit > 0

\* Line 235: the send to rateLimit can proceed.
CanRelease == rateLimit < userRateLimit

\* Line 255: the send to resultCh can proceed.
CanSend == Len(resultCh) < LenUsersIn

\* Line 268: the receive from resultCh can proceed.
CanReceive == resultCh # <<>>

\* A mutant of WaitReady: the main flow does not wait.
WaitReadyAlways == TRUE

\* Line 266: wg.Wait() returns.
WaitReady == wg = 0

Task(pc, u, timesIn, panicking) ==
    [pc |-> pc, u |-> u, timesIn |-> timesIn, panicking |-> panicking]

One(e) == SetToBag({e})

Running == proc = "running"

\* Lines 204-228: read the checkpoint, make the channels, fill the pool; with
\* no checkpoint on disk os.Open fails and line 206 panics.
Open ==
    /\ mainPc = "open" /\ Running
    /\ IF file.exists
       THEN /\ LET m == Unmarshal(file.data)
                   b == SetToBag({[u |-> u, timesIn |-> m[u]] : u \in DOMAIN m})
               IN  /\ usersIn' = b /\ pending' = b
                   /\ mainPc' = IF DOMAIN m = {} THEN "authors2" ELSE "spawn"
            /\ users' = EmptyMap /\ resultCh' = <<>>
            /\ rateLimit' = InitialTokens /\ wg' = 0
            /\ UNCHANGED proc
       ELSE /\ proc' = "crashed"
            /\ UNCHANGED <<mainPc, usersIn, pending, users, resultCh, rateLimit, wg>>
    /\ UNCHANGED <<rosterVars, collectVars, tasks, i, blocklistedNames,
                   now, pool, formatVars, out, outFile>>

\* Lines 230-262, one iteration: wg.Add(1) and the go statement, for an
\* entry of usersIn the range statement has not visited.
Spawn ==
    /\ mainPc = "spawn" /\ Running
    /\ \E e \in BagToSet(pending) :
          /\ pending' = pending (-) One(e)
          /\ tasks' = tasks (+) One(Task("acquire", e.u, e.timesIn, FALSE))
          /\ mainPc' = IF BagCardinality(pending) = 1 THEN "authors2" ELSE "spawn"
    /\ wg' = wg + 1
    /\ UNCHANGED <<proc, rosterVars, collectVars, usersIn, rateLimit, resultCh,
                   i, users, blocklistedNames, now, pool, formatVars, out, outFile>>

\* Line 264: _, blocklistedNames := getOrganizationEmailsAndNamesFromAuthors.
ParseAuthorsNames ==
    /\ mainPc = "authors2" /\ Running
    /\ blocklistedNames' = getOrganizationEmailsAndNamesFromAuthors(contents).logins
    /\ mainPc' = "wait"
    /\ UNCHANGED <<proc, rosterVars, collectVars, usersIn, pending, tasks,
                   rateLimit, resultCh, wg, i, users, now, pool, formatVars, out, outFile>>

\* Line 266: wg.Wait().
Wait ==
    /\ mainPc = "wait" /\ Running
    /\ WaitReady
    /\ i' = 0
    /\ mainPc' = IF 0 < CollateBound THEN "collate" ELSE "format"
    /\ UNCHANGED <<proc, rosterVars, collectVars, usersIn, pending, tasks,
                   rateLimit, resultCh, wg, users, blocklistedNames, now, pool,
                   formatVars, out, outFile>>

\* Lines 267-276, one iteration: receive a result and keep it or drop it.
Collate ==
    /\ mainPc = "collate" /\ Running
    /\ CanReceive
    /\ LET u == Head(resultCh)
       IN  users' = IF Blocked(u) THEN users ELSE MapPut(users, u.login, u)
    /\ resultCh' = Tail(resultCh)
    /\ i' = i + 1
    /\ mainPc' = IF i + 1 < CollateBound THEN "collate" ELSE "format"
    /\ UNCHANGED <<proc, rosterVars, collectVars, usersIn, pending, tasks,
                   rateLimit, wg, blocklistedNames, now, pool, formatVars, out, outFile>>

\* Lines 318-329: print the report and write the report file.
Write ==
    /\ mainPc = "write" /\ Running
    /\ outFile' = FileOf(out)
    /\ mainPc' = "return"
    /\ UNCHANGED <<proc, rosterVars, collectVars, usersIn, pending, tasks,
                   rateLimit, resultCh, wg, i, users, blocklistedNames, now, pool,
                   formatVars, out>>

\* Lines 330 and 343/438: the function and then main return, which ends the
\* process and every goroutine with it.
Return ==
    /\ mainPc = "return" /\ Running
    /\ proc' = "exited"
    /\ UNCHANGED <<mainPc, rosterVars, collectVars, enrichVars, now, pool, formatVars>>

\* Line 237: <-rateLimit.
Acquire(t) ==
    /\ Running /\ t.pc = "acquire"
    /\ CanAcquire
    /\ rateLimit' = rateLimit - 1
    /\ tasks' = (tasks (-) One(t)) (+) One([t EXCEPT !.pc = "lookup"])
    /\ UNCHANGED <<mainPc, proc, rosterVars, collectVars, usersIn, pending,
                   resultCh, wg, i, users, blocklistedNames, now, pool, formatVars,
                   out, outFile>>

\* Lines 238-260: the lookup returns; the task panics on an error or on a
\* timestamp that does not parse, and otherwise sends its result.
Lookup(t) ==
    /\ Running /\ t.pc = "lookup"
    /\ LET ghUser == UsersGet(t.u)
           parsed == ParseTimes(t.timesIn)
       IN  IF ghUser.err \/ ~parsed.ok
           THEN /\ tasks' = (tasks (-) One(t))
                              (+) One([t EXCEPT !.pc = "done", !.panicking = TRUE])
                /\ UNCHANGED resultCh
           ELSE /\ CanSend
                /\ resultCh' = Append(resultCh,
                        [userURL |-> ghUser.htmlURL, login |-> t.u,
                         name |-> IF ghUser.name = <<>> THEN t.u ELSE ghUser.name,
                         times |-> parsed.times])
                /\ tasks' = (tasks (-) One(t)) (+) One([t EXCEPT !.pc = "done"])
    /\ UNCHANGED <<mainPc, proc, rosterVars, collectVars, usersIn, pending,
                   rateLimit, wg, i, users, blocklistedNames, now, pool, formatVars,
                   out, outFile>>

\* Line 234, in the deferred function: wg.Done().
Done(t) ==
    /\ Running /\ t.pc = "done"
    /\ wg' = wg - 1
    /\ tasks' = (tasks (-) One(t)) (+) One([t EXCEPT !.pc = "release"])
    /\ UNCHANGED <<mainPc, proc, rosterVars, collectVars, usersIn, pending,
                   rateLimit, resultCh, i, users, blocklistedNames, now, pool,
                   formatVars, out, outFile>>

\* Line 235, in the deferred function: rateLimit <- struct{}{}.  The
\* goroutine then ends, or goes on panicking.
Release(t) ==
    /\ Running /\ t.pc = "release"
    /\ CanRelease
    /\ rateLimit' = rateLimit + 1
    /\ tasks' = (tasks (-) One(t))
                  (+) One([t EXCEPT !.pc = IF t.panicking THEN "fatal" ELSE "end"])
    /\ UNCHANGED <<mainPc, proc, rosterVars, collectVars, usersIn, pending,
                   resultCh, wg, i, users, blocklistedNames, now, pool, formatVars,
                   out, outFile>>

\* Lines 241 and 247: the panic, its deferred function run, ends the process.
Crash(t) ==
    /\ Running /\ t.pc = "fatal"
    /\ proc' = "crashed"
    /\ UNCHANGED <<mainPc, rosterVars, collectVars, enrichVars, now, pool, formatVars>>

\* The steps of the enrichment once the checkpoint is loaded.
NextLoaded ==
    \/ Spawn \/ ParseAuthorsNames \/ Wait \/ Collate
    \/ FormatReport \/ Write \/ Return
    \/ \E t \in BagToSet(tasks) : Acquire(t)
    \/ \E t \in BagToSet(tasks) : Lookup(t)
    \/ \E t \in BagToSet(tasks) : Done(t)
    \/ \E t \in BagToSet(tasks) : Release(t)
    \/ \E t \in BagToSet(tasks) : Crash(t)

NextEnrich == Open \/ NextLoaded

\* The steps of a run in which no lookup task panics.
NextLoadedOK ==
    \/ Spawn \/ ParseAuthorsNames \/ Wait \/ Collate
    \/ FormatReport \/ Write \/ Return
    \/ \E t \in BagToSet(tasks) : Acquire(t)
    \/ \E t \in BagToSet(tasks) : Lookup(t)
    \/ \E t \in BagToSet(tasks) : Done(t)
    \/ \E t \in BagToSet(tasks) : Release(t)

-----------------------------------------------------------------------------
(* A run with -use_intermediate: every checkpoint of at most MaxLogins of  *)
(* the sample logins, and the run with no checkpoint on disk.              *)

MaxLogins == 3

\* The logins of the sample checkpoints: alice is kept; bob has no profile
\* name and his login is a roster name; jdoe's profile name is a roster
\* name; nigeltao is on the blocklist; ghost has no account; stale has a
\* timestamp of month 13.
EnrichLogins == {alice, bob, jdoe, nigeltao, ghost, stale}

Stamp(y, mo, d, h, mi, sec, z) ==
    [year |-> y, month |-> mo, day |-> d, hour |-> h, minute |-> mi,
     second |-> sec, zone |-> z]

SampleTimesIn(u) ==
    IF u = stale THEN <<Stamp(2014, 6, 1, 0, 0, 0, 0), Stamp(2014, 13, 1, 0, 0, 0, 0)>>
    ELSE IF u = alice THEN <<Stamp(2014, 6, 1, 0, 0, 0, 0), Stamp(2015, 1, 1, 0, 59, 59, 60)>>
    ELSE <<Stamp(2015, 2, 1, 12, 0, 0, 0)>>

SampleCheckpoints ==
    {Marshal([u \in S |-> SampleTimesIn(u)]) :
        S \in {T \in SUBSET EnrichLogins : Cardinality(T) <= MaxLogins}}

Init ==
    /\ mainPc = "open" /\ proc = "running"
    /\ contents = SampleAuthors /\ emails = {} /\ names = {}
    /\ organizationMembers = {} /\ commits = <<>> /\ idx = 0
    /\ userTimes = EmptyMap
    /\ file \in {NoFile} \cup {FileOf(d) : d \in SampleCheckpoints}
    /\ EnrichIdle /\ FormatIdle
    /\ now = SampleNow
    /\ pool = PoolIdle

Next == NextEnrich

Spec == Init /\ [][Next]_vars

\* A lookup task has panicked.
Failed == \E t \in BagToSet(tasks) : t.panicking

Logins(b) == {e.u : e \in BagToSet(b)}

\* C2: once a lookup task has failed (the lookup returned an error or a
\* timestamp did not parse), the main flow is never at or past the building
\* and writing of the report, the report file is not written and the process
\* does not end by main returning.
C2_NoReportAfterFailure ==
    Failed =>
        /\ mainPc \in {"spawn", "authors2", "wait", "collate"}
        /\ out = <<>> /\ outFile = NoFile
        /\ proc # "exited"

\* The failing task has passed the barrier, the main flow has passed it too,
\* has read the one result there is and waits for a second one.
C2_Witness ==
    /\ Failed /\ wg = 0 /\ mainPc = "collate"
    /\ i = 1 /\ resultCh = <<>> /\ LenUsersIn = 2
    /\ \E t \in BagToSet(tasks) : t.u = stale /\ t.panicking /\ t.pc = "release"

\* C3: in a run without failures, once the main flow has passed the barrier
\* no lookup task is before its wg.Done(), the channel holds one result for
\* each login of the checkpoint that is still to be read (all of them when
\* the loop starts), with no login twice, so the loop never blocks.
C3_CollationAfterBarrier ==
    (mainPc \in {"collate", "format", "write", "return"} /\ ~Failed) =>
        /\ \A t \in BagToSet(tasks) : t.pc \in {"release", "end"}
        /\ BagCardinality(tasks) = LenUsersIn
        /\ Len(resultCh) = LenUsersIn - i
        /\ \A j, k \in DOMAIN resultCh :
              j # k => resultCh[j].login # resultCh[k].login
        /\ {resultCh[k].login : k \in DOMAIN resultCh} \cap DOMAIN users = {}
        /\ i = 0 => {resultCh[k].login : k \in DOMAIN resultCh} = Logins(usersIn)

\* The collation loop is about to start on two results while a task still
\* holds its slot.
C3_Witness ==
    /\ mainPc = "collate" /\ i = 0 /\ ~Failed
    /\ Len(resultCh) = 2 /\ resultCh[1].login # resultCh[2].login
    /\ \E t \in BagToSet(tasks) : t.pc = "release"

\* The display name the enrichment gives a login: the profile's name, or the
\* login when the profile has none.
ResolvedName(u) == IF UsersGet(u).name = <<>> THEN u ELSE UsersGet(u).name

\* The users C6 says are never reported; "Jane Doe" and "bob" are the names
\* of the AUTHORS file of the run.
Excluded(u) == u \in blocklisted \/ ResolvedName(u) \in {JaneDoe, bob}

ListedLogins(r) ==
    {r.allTime.entries[k].login : k \in DOMAIN r.allTime.entries}
    \cup UNION {{r.years[y].entries[k].login : k \in DOMAIN r.years[y].entries} :
                   y \in DOMAIN r.years}

\* C6: no user whose login is on the blocklist and no user whose resolved
\* display name is an internal name is in the final user mapping, in a block
\* of the report or in the report file.
C6_BlockedNeverReported ==
    /\ \A u \in DOMAIN users : ~Excluded(u)
    /\ out # <<>> => \A u \in ListedLogins(out) : ~Excluded(u)
    /\ outFile # NoFile => \A u \in ListedLogins(outFile.data) : ~Excluded(u)

\* The report is written for a checkpoint with a blocklisted login, a login
\* whose profile name is an internal name and one external login.
C6_Witness ==
    /\ outFile # NoFile
    /\ Logins(usersIn) = {nigeltao, jdoe, alice}
    /\ ListedLogins(outFile.data) = {alice}

-----------------------------------------------------------------------------
(* A run with -use_intermediate in which every lookup returns a profile    *)
(* and every timestamp parses, under fair scheduling: a step that can be   *)
(* taken is not put off forever.                                           *)

\* The sample logins whose lookup task does not panic.
GoodLogins == {alice, bob, jdoe, nigeltao}

GoodCheckpoints ==
    {Marshal([u \in S |-> SampleTimesIn(u)]) :
        S \in {T \in SUBSET GoodLogins : Cardinality(T) <= MaxLogins}}

InitGood ==
    /\ mainPc = "open" /\ proc = "running"
    /\ contents = SampleAuthors /\ emails = {} /\ names = {}
    /\ organizationMembers = {} /\ commits = <<>> /\ idx = 0
    /\ userTimes = EmptyMap
    /\ file \in {FileOf(d) : d \in GoodCheckpoints}
    /\ EnrichIdle /\ FormatIdle
    /\ now = SampleNow
    /\ pool = PoolIdle

NextGood == Open \/ NextLoadedOK

FairEnrich == InitGood /\ [][NextGood]_vars /\ WF_vars(NextGood)

\* The number of tasks at position pc.
AtPc(pc) == BagCardinality([t \in {x \in BagToSet(tasks) : x.pc = pc} |-> tasks[t]])

\* The tokens held by tasks: taken at line 237 and not yet sent back.
SlotsHeld == AtPc("lookup") + AtPc("done") + AtPc("release")

\* Once the pool is filled, tokens are neither lost nor made, and neither
\* the send of a token nor the send of a result finds its channel full.
NeverBlocked ==
    /\ mainPc # "open" => rateLimit + SlotsHeld = userRateLimit
    /\ rateLimit \in 0..userRateLimit
    /\ AtPc("release") > 0 => CanRelease
    /\ AtPc("lookup") > 0 => CanSend

\* A step of the run can be taken: the main flow is not held at the barrier
\* or at an empty channel, or a task is not held at an empty pool or at a
\* full channel.
SomeStepReady ==
    \/ mainPc \in {"open", "spawn", "authors2", "format", "write", "return"}
    \/ mainPc = "wait" /\ WaitReady
    \/ mainPc = "collate" /\ CanReceive
    \/ AtPc("acquire") > 0 /\ CanAcquire
    \/ AtPc("lookup") > 0 /\ CanSend
    \/ AtPc("done") > 0
    \/ AtPc("release") > 0 /\ CanRelease

\* No step of the run can be taken: the process has ended, or the main flow
\* and every task are blocked.
Terminated == ~Running \/ ~SomeStepReady

EveryTaskAdmitted == pending = EmptyBag /\ AtPc("acquire") = 0

CollationFinished == mainPc \in {"format", "write", "return"} /\ i = LenUsersIn

EverySlotReturned ==
    /\ pending = EmptyBag /\ AtPc("end") = LenUsersIn
    /\ rateLimit = userRateLimit

\* C10: tokens are conserved and no send blocks, and a run ends only when
\* every queued task has obtained a slot, every task that obtained a slot
\* has returned it, and the main flow has finished the collation.
C10_NoDeadlockAllReturned ==
    /\ NeverBlocked
    /\ Terminated => EveryTaskAdmitted /\ CollationFinished /\ EverySlotReturned

-----------------------------------------------------------------------------
(* The admission pool under load.  With more logins than the pool has      *)
(* tokens the states of the model above are too many to enumerate, so the  *)
(* enrichment is modelled a second time with the logins left out.  pool    *)
(* records of the checkpoint only len(usersIn), of an entry and of a       *)
(* goroutine only whether its lookup task panics (fails), and of resultCh  *)
(* only the number of messages in it; users and the report's text are left *)
(* out.  The steps are those of lines 230-330 and 233-261, one for one.    *)
(* EnrichmentRefinesPool links the two models.                             *)

PoolTask(pc, fails, panicking) == [pc |-> pc, fails |-> fails, panicking |-> panicking]

\* Lines 204-228 for a checkpoint of n logins, bad of which have no account
\* or a timestamp that does not parse.
PoolLoaded(n, bad) ==
    [mainPc |-> IF n = 0 THEN "authors2" ELSE "spawn", proc |-> "running",
     lenUsersIn |-> n,
     pending |-> [e \in {[fails |-> f] : f \in {x \in BOOLEAN :
                                 IF x THEN bad > 0 ELSE n - bad > 0}}
                    |-> IF e.fails THEN bad ELSE n - bad],
     tasks |-> EmptyBag, rateLimit |-> InitialTokens, resultCh |-> 0,
     wg |-> 0, i |-> 0, written |-> FALSE]

\* A mutant of PoolCanAcquire: a task does not wait for a token.
PoolCanAcquireAlways(p) == TRUE

\* Line 237: the receive from rateLimit can proceed.
PoolCanAcquire(p) == p.rateLimit > 0

\* Lines 230-262, one iteration.
PoolSpawn(p, q) ==
    /\ p.mainPc = "spawn" /\ p.proc = "running"
    /\ \E e \in BagToSet(p.pending) :
          q = [p EXCEPT !.pending = @ (-) One(e),
                        !.tasks = @ (+) One(PoolTask("acquire", e.fails, FALSE)),
                        !.wg = @ + 1,
                        !.mainPc = IF BagCardinality(p.pending) = 1
                                   THEN "authors2" ELSE "spawn"]

\* Line 264.
PoolParseAuthorsNames(p, q) ==
    /\ p.mainPc = "authors2" /\ p.proc = "running"
    /\ q = [p EXCEPT !.mainPc = "wait"]

\* Line 266: wg.Wait().
PoolWait(p, q) ==
    /\ p.mainPc = "wait" /\ p.proc = "running"
    /\ p.wg = 0
    /\ q = [p EXCEPT !.i = 0,
                     !.mainPc = IF 0 < p.lenUsersIn THEN "collate" ELSE "format"]

\* Lines 267-276, one iteration.
PoolCollate(p, q) ==
    /\ p.mainPc = "collate" /\ p.proc = "running"
    /\ p.resultCh > 0
    /\ q = [p EXCEPT !.resultCh = @ - 1, !.i = @ + 1,
                     !.mainPc = IF p.i + 1 < p.lenUsersIn
                                THEN "collate" ELSE "format"]

\* Lines 278-316: the report is built.
PoolFormatReport(p, q) ==
    /\ p.mainPc = "format" /\ p.proc = "running"
    /\ q = [p EXCEPT !.mainPc = "write"]

\* Lines 318-329: the report file is written.
PoolWrite(p, q) ==
    /\ p.mainPc = "write" /\ p.proc = "running"
    /\ q = [p EXCEPT !.mainPc = "return", !.written = TRUE]

\* Lines 330 and 343/438: main returns, which ends the process.
PoolReturn(p, q) ==
    /\ p.mainPc = "return" /\ p.proc = "running"
    /\ q = [p EXCEPT !.proc = "exited"]

\* Line 237: <-rateLimit.
PoolAcquire(p, q) ==
    /\ p.proc = "running"
    /\ PoolCanAcquire(p)
    /\ \E t \in BagToSet(p.tasks) :
          /\ t.pc = "acquire"
          /\ q = [p EXCEPT !.rateLimit = @ - 1,
                           !.tasks = (@ (-) One(t))
                                       (+) One([t EXCEPT !.pc = "lookup"])]

\* Lines 238-260: the task panics, or sends its result.
PoolLookup(p, q) ==
    /\ p.proc = "running"
    /\ \E t \in BagToSet(p.tasks) :
          /\ t.pc = "lookup"
          /\ IF t.fails
             THEN q = [p EXCEPT !.tasks = (@ (-) One(t))
                          (+) One([t EXCEPT !.pc = "done", !.panicking = TRUE])]
             ELSE /\ p.resultCh < p.lenUsersIn
                  /\ q = [p EXCEPT !.resultCh = @ + 1,
                                   !.tasks = (@ (-) One(t))
                                               (+) One([t EXCEPT !.pc = "done"])]

\* Line 234: wg.Done().
PoolDone(p, q) ==
    /\ p.proc = "running"
    /\ \E t \in BagToSet(p.tasks) :
          /\ t.pc = "done"
          /\ q = [p EXCEPT !.wg = @ - 1,
                           !.tasks = (@ (-) One(t))
                                       (+) One([t EXCEPT !.pc = "release"])]

\* Line 235: rateLimit <- struct{}{}.
PoolRelease(p, q) ==
    /\ p.proc = "running"
    /\ p.rateLimit < userRateLimit
    /\ \E t \in BagToSet(p.tasks) :
          /\ t.pc = "release"
          /\ q = [p EXCEPT !.rateLimit = @ + 1,
                           !.tasks = (@ (-) One(t))
                              (+) One([t EXCEPT !.pc = IF t.panicking
                                                       THEN "fatal" ELSE "end"])]

\* Lines 241 and 247: the panic ends the process.
PoolCrash(p, q) ==
    /\ p.proc = "running"
    /\ \E t \in BagToSet(p.tasks) : t.pc = "fatal"
    /\ q = [p EXCEPT !.proc = "crashed"]

PoolStep(p, q) ==
    \/ PoolSpawn(p, q) \/ PoolParseAuthorsNames(p, q) \/ PoolWait(p, q)
    \/ PoolCollate(p, q) \/ PoolFormatReport(p, q) \/ PoolWrite(p, q)
    \/ PoolReturn(p, q)
    \/ PoolAcquire(p, q) \/ PoolLookup(p, q) \/ PoolDone(p, q)
    \/ PoolRelease(p, q) \/ PoolCrash(p, q)

\* Everything but pool.
programVars ==
    <<mainPc, proc, rosterVars, collectVars, enrichVars, now, formatVars>>

NextPool ==
    \/ PoolSpawn(pool, pool') /\ UNCHANGED programVars
    \/ PoolParseAuthorsNames(pool, pool') /\ UNCHANGED programVars
    \/ PoolWait(pool, pool') /\ UNCHANGED programVars
    \/ PoolCollate(pool, pool') /\ UNCHANGED programVars
    \/ PoolFormatReport(pool, pool') /\ UNCHANGED programVars
    \/ PoolWrite(pool, pool') /\ UNCHANGED programVars
    \/ PoolReturn(pool, pool') /\ UNCHANGED programVars
    \/ PoolAcquire(pool, pool') /\ UNCHANGED programVars
    \/ PoolLookup(pool, pool') /\ UNCHANGED programVars
    \/ PoolDone(pool, pool') /\ UNCHANGED programVars
    \/ PoolRelease(pool, pool') /\ UNCHANGED programVars
    \/ PoolCrash(pool, pool') /\ UNCHANGED programVars

\* The number of logins beyond userRateLimit.
ExtraLogins == 1

\* The checkpoints of userRateLimit + ExtraLogins logins of which none, or
\* one, has a lookup that fails.
InitPool ==
    /\ mainPc = "idle" /\ proc = "running"
    /\ RosterIdle /\ CollectIdle /\ EnrichIdle /\ FormatIdle
    /\ now = SampleNow
    /\ pool \in {PoolLoaded(userRateLimit + ExtraLogins, bad) : bad \in {0, 1}}

SpecPool == InitPool /\ [][NextPool]_vars

\* The number of goroutines of pool at position pc.
PoolAt(pc) ==
    BagCardinality([t \in {x \in BagToSet(pool.tasks) : x.pc = pc} |-> pool.tasks[t]])

\* C1: the lookups in progress, the tasks that have taken a token and whose
\* lookup has not returned, are never more than the pool's 20.
C1_ConcurrencyCap == PoolAt("lookup") <= userRateLimit

\* Twenty lookups are in progress while another task waits for a token.
C1_Witness ==
    /\ PoolAt("lookup") = userRateLimit /\ PoolAt("acquire") > 0
    /\ pool.rateLimit = 0

-----------------------------------------------------------------------------
(* The two models of the enrichment agree: with the logins left out, a     *)
(* state of the model above is a state of pool, Open gives a loaded pool   *)
(* and every later step is a step of pool.                                 *)

\* The lookup task of this entry panics: lines 240-248.
Fails(u, timesIn) == UsersGet(u).err \/ ~ParseTimes(timesIn).ok

\* The entries b holds, with the logins left out.
PoolEntries(b) ==
    LET cls(e) == [fails |-> Fails(e.u, e.timesIn)]
    IN  [c \in {cls(e) : e \in BagToSet(b)} |->
            BagCardinality([e \in {x \in BagToSet(b) : cls(x) = c} |-> b[e]])]

\* The goroutines b holds, with the logins left out.
PoolTasks(b) ==
    LET cls(t) == PoolTask(t.pc, Fails(t.u, t.timesIn), t.panicking)
    IN  [c \in {cls(t) : t \in BagToSet(b)} |->
            BagCardinality([t \in {x \in BagToSet(b) : cls(x) = c} |-> b[t]])]

PoolOf ==
    [mainPc |-> mainPc, proc |-> proc, lenUsersIn |-> LenUsersIn,
     pending |-> PoolEntries(pending), tasks |-> PoolTasks(tasks),
     rateLimit |-> rateLimit, resultCh |-> Len(resultCh), wg |-> wg, i |-> i,
     written |-> outFile.exists]

EnrichmentRefinesPool ==
    [][IF mainPc = "open"
       THEN file.exists =>
               \E bad \in 0..LenUsersIn' : PoolOf' = PoolLoaded(LenUsersIn', bad)
       ELSE PoolStep(PoolOf, PoolOf')]_vars

-----------------------------------------------------------------------------
(* main, lines 332-438: the commit collector and the checkpoint store.     *)
(* commits is the listing of all repositories and pages in the order the   *)
(* loops of lines 357-414 visit it.                                        *)

\* Lines 376-396: the commit passes every test of the loop body.
Include(c) ==
    /\ ~(c.parents > 0)
    /\ c.login # <<>>
    /\ c.login \notin organizationMembers
    /\ ~Contains(c.email, InternalDomain)
    /\ ~HasPrefix(c.message, MergePrefix)
    /\ c.name \notin names
    /\ c.email \notin emails

\* Lines 420-425: commitTimes, the timestamps of userTimes as strings; a
\* login gets its key with the first append of line 423.
CommitTimes(ut) ==
    [u \in {v \in DOMAIN ut : ut[v] # <<>>} |->
        [k \in DOMAIN ut[u] |-> FormatRFC3339(ut[u][k])]]

\* getOrganizationLogins, lines 65-93: the logins the API lists as members.
OrgMembers == {jane}

\* Line 346: organizationMembers, err := getOrganizationLogins(...).
ListMembers ==
    /\ mainPc = "members" /\ Running
    /\ organizationMembers' = OrgMembers
    /\ mainPc' = "authors"
    /\ UNCHANGED <<proc, rosterVars, commits, idx, userTimes, file, enrichVars,
                   now, pool, formatVars>>

\* Lines 375-408, one iteration of the loop over the commits.
ProcessCommit ==
    /\ mainPc = "commits" /\ Running
    /\ idx < Len(commits)
    /\ LET c == commits[idx + 1]
       IN  userTimes' =
               IF Include(c)
               THEN MapPut(userTimes, c.login,
                           (IF c.login \in DOMAIN userTimes
                            THEN userTimes[c.login] ELSE <<>>) \o <<c.date>>)
               ELSE userTimes
    /\ idx' = idx + 1
    /\ UNCHANGED <<mainPc, proc, rosterVars, organizationMembers, commits, file,
                   enrichVars, now, pool, formatVars>>

\* Lines 416-437: write the checkpoint and go on to the enrichment.
Store ==
    /\ mainPc = "commits" /\ Running
    /\ idx = Len(commits)
    /\ file' = FileOf(Marshal(CommitTimes(userTimes)))
    /\ mainPc' = "open"
    /\ UNCHANGED <<proc, rosterVars, organizationMembers, commits, idx,
                   userTimes, enrichVars, now, pool, formatVars>>

NextCollect ==
    \/ ListMembers \/ ParseAuthors \/ ProcessCommit \/ Store
    \/ NextEnrich

-----------------------------------------------------------------------------
(* A full run: every listing of at most MaxCommits of the sample commits.  *)

MaxCommits == 2

Commit(parents, login, name, email, message, date) ==
    [parents |-> parents, login |-> login, name |-> name, email |-> email,
     message |-> message, date |-> date]

\* An author date: the instant s seconds into the day y-mo-d (UTC), with
\* its nanoseconds and the offset of the zone it was written in.
At(y, mo, d, s, nsec, off) ==
    [unix |-> DateUTC(y, mo, d).unix + s, nsec |-> nsec, off |-> off]

\* One commit that passes every test of the collector, and commits that
\* differ from it in one respect each.
SampleCommits ==
    {Commit(0, external1, ExternalOne, external1Email, FixBug,
            At(2014, 12, 31, 84600, 0, 3600)),
     Commit(0, external1, ExternalOne, external1Email, FixBug,
            At(2015, 1, 1, 1800, 500, -28800)),
     Commit(1, external1, ExternalOne, external1Email, FixBug,
            At(2014, 3, 1, 0, 0, 0)),
     Commit(0, alice, AliceA, aliceEmail, FixBug, At(2014, 3, 2, 0, 0, 0)),
     Commit(0, ghost, <<>>, aliceEmail, FixBug, At(2014, 3, 3, 0, 0, 0)),
     Commit(0, <<>>, ExternalOne, external1Email, FixBug, At(2014, 3, 4, 0, 0, 0)),
     Commit(0, jane, <<>>, aliceEmail, FixBug, At(2014, 3, 5, 0, 0, 0)),
     Commit(0, carol, <<>>, carolEmail, FixBug, At(2014, 3, 6, 0, 0, 0)),
     Commit(0, alice, AliceA, aliceEmail, MergePR, At(2014, 3, 7, 0, 0, 0)),
     Commit(0, jdoe, JaneDoe, aliceEmail, FixBug, At(2014, 3, 8, 0, 0, 0)),
     Commit(0, jdoe, <<>>, jdEmail, FixBug, At(2014, 3, 9, 0, 0, 0))}

InitCollect ==
    /\ mainPc = "members" /\ proc = "running"
    /\ contents = SampleAuthors /\ emails = {} /\ names = {}
    /\ organizationMembers = {}
    /\ commits \in SeqsUpTo(SampleCommits, MaxCommits)
    /\ idx = 0 /\ userTimes = EmptyMap /\ file = NoFile
    /\ EnrichIdle /\ FormatIdle
    /\ now = SampleNow
    /\ pool = PoolIdle

SpecCollect == InitCollect /\ [][NextCollect]_vars

\* The collector has recorded the commit: its date is in its login's list.
Recorded(c) == c.login \in DOMAIN userTimes /\ c.date \in Range(userTimes[c.login])

\* C4: the collector records a commit exactly when the commit has at least
\* one parent, its login is not empty and not a member's, its message does
\* not begin with "Merge pull request ", its author name is not an internal
\* name, and its email is not an internal email and does not contain
\* "@cockroachlabs.com".
C4_IncludedIffSevenConditions ==
    \A k \in 1..idx :
        Recorded(commits[k]) <=>
            /\ commits[k].parents >= 1
            /\ commits[k].login # <<>>
            /\ commits[k].login \notin organizationMembers
            /\ ~HasPrefix(commits[k].message, MergePrefix)
            /\ commits[k].name \notin names
            /\ commits[k].email \notin emails
            /\ ~Contains(commits[k].email, InternalDomain)

SameToTheSecond(a, b) ==
    Len(a) = Len(b) /\ \A k \in DOMAIN a : a[k].unix = b[k].unix

\* C9: the checkpoint the collector stores is loaded with the logins of the
\* contribution record, and every result a lookup task parses from it has
\* the timestamps of its login, in order and equal to the second; no
\* timestamp of the checkpoint fails to parse.
C9_CheckpointRoundTrip ==
    /\ mainPc \notin {"members", "authors", "commits", "open"} =>
          /\ Logins(usersIn) = DOMAIN userTimes
          /\ BagCardinality(usersIn) = Cardinality(DOMAIN userTimes)
          /\ \A e \in BagToSet(usersIn) : Len(e.timesIn) = Len(userTimes[e.u])
    /\ \A k \in DOMAIN resultCh :
          SameToTheSecond(resultCh[k].times, userTimes[resultCh[k].login])
    /\ \A u \in DOMAIN users : SameToTheSecond(users[u].times, userTimes[u])
    /\ \A t \in BagToSet(tasks) : t.panicking => UsersGet(t.u).err

\* A login's two timestamps, written in the zones +01:00 and -08:00 and one
\* with nanoseconds, have gone through the checkpoint into the user mapping.
C9_Witness ==
    /\ external1 \in DOMAIN users
    /\ userTimes[external1] = <<At(2014, 12, 31, 84600, 0, 3600),
                                At(2015, 1, 1, 1800, 500, -28800)>>
    /\ Len(users[external1].times) = 2

====
